---- MODULE Spec2Model ----
(***************************************************************************)
(* A model of neo4j/session.py: Session.run's request pipelining over one  *)
(* Connection, the Transaction state machine built on it, and the Records  *)
(* a run returns.                                                          *)
(*                                                                         *)
(* session.py is modelled from its source.  The Connection, the Response   *)
(* objects and the server behind them (neo4j/connection.py) and the value  *)
(* hydration (neo4j/typesystem.py) are modelled from the specification:    *)
(* a Connection queues requests, flushes them, and hands each incoming     *)
(* message to the oldest response that is not yet terminal.                *)
(*                                                                         *)
(* One Session is driven by one thread: API calls start only when no call  *)
(* is in progress (pc = "idle").  The server is a second process.          *)
(* Statement parameters are not modelled: the server's reply to a request  *)
(* is a free choice, whatever the statement's text and parameters.         *)
(*                                                                         *)
(* Five specifications share the actions:                                  *)
(*   Spec        the Session, its Transactions, constructed through        *)
(*               new_transaction() or directly, Session.close() and the    *)
(*               server;                                                   *)
(*   SpecOpen    an open Session whose Transactions all come from          *)
(*               new_transaction(), and the server;                        *)
(*   SpecTimed   Session.run and the server while the clock advances, for  *)
(*               the BenchTest timestamps;                                 *)
(*   SpecFair    the calls that run statements and the server, with the    *)
(*               thread and the server's summary messages weakly fair;     *)
(*   SpecRecord  the lookups on a Record.                                  *)
(***************************************************************************)
EXTENDS Integers, Sequences, FiniteSets, TLC

\* ---------------------------------------------------------------- bounds
\* Session.run calls (statements) made on the Session.
MaxCalls == 3
\* Record messages the server emits for one result stream.
MaxRows == 2
\* Session.close() calls.
MaxClose == 2
\* Ticks of the clock.
MaxClock == 1
\* Fields of a Record whose lookups are checked.
MaxFields == 2

\* ------------------------------------------------------------- constants
\* Session.transaction = None
NoTx == 0

\* BenchTest's class attributes: a timestamp not yet taken is None.
NoTime == -1

\* Statements a caller passes to run(); Transaction adds its own three.
UserStatements == {"RETURN"}

\* Raw (wire) values of a record message.
RawValues == {"1", "struct:Node"}

\* Result shapes the server may announce for a user statement.
UserFieldLists == {<<"x", "y">>}

\* Column names a statement may give its result.
FieldNames == {"x", "y", "__values__", "__len__"}

VARIABLES
    transaction,  \* Session.transaction: NoTx or the index of a Transaction
    txs,          \* every Transaction object constructed, in order:
                  \*   [success, closed, returned]; returned = new_transaction
                  \*   handed it to the caller
    bench_tests,  \* Session.bench_tests: the BenchTest of every run that
                  \*   returned, in order
    outbox,       \* Connection: requests appended and not yet flushed
    responses,    \* Connection: responses awaiting their terminal message
    closes,       \* Connection: number of close() calls received
    srvq,         \* requests flushed to the server, not yet answered
    wire,         \* messages from the server, not yet fetched
    srv,          \* server: outcome of the statement it is executing
    pc,           \* position of the thread inside Session.run, or "idle"
    frame,        \* the API call in progress, or the last one made
    result,       \* how that call ended: pending, ok, or the error raised
    ret,          \* the list the last run returned
    fields,       \* run()'s closure variable `fields`, per run call
    records,      \* run()'s closure variable `records`, per run call
    ncalls,       \* run calls started so far
    sentLog,      \* history: every request flushed, in order
    emitted,      \* history: record messages the server emitted for the
                  \*   result stream of the call in `frame`
    steps,        \* history: the steps of the run call in progress
    failedRuns,   \* history: run calls whose query-execution request the
                  \*   server failed
    clock,        \* the performance counter
    bench,        \* run()'s local `t`, the BenchTest of each run call
    rec,          \* a Record whose fields are looked up
    got           \* what the last lookups on rec returned

vars == <<transaction, txs, bench_tests, outbox, responses, closes, srvq, wire,
          srv, pc, frame, result, ret, fields, records, ncalls, sentLog,
          emitted, steps, failedRuns, clock, bench, rec, got>>

sessionVars == <<transaction, txs, bench_tests>>
connVars == <<outbox, responses, closes>>
serverVars == <<srvq, wire, srv, failedRuns>>
closureVars == <<fields, records>>
recordVars == <<rec, got>>

Calls == 1..MaxCalls

\* ------------------------------------------------------------- hydration
\* typesystem.hydrated: a wire structure becomes a graph object, any other
\* value is itself.
hydrated(v) == IF v = "struct:Node" THEN "Node()" ELSE v

\* tuple(map(hydrated, values))
HydrateAll(values) == [i \in 1..Len(values) |-> hydrated(values[i])]

\* ------------------------------------------------------------- BenchTest
\* BenchTest(): the six timestamps, none taken yet; cid tells the objects
\* apart.
BenchTest(c) ==
    [cid |-> c, init |-> NoTime, start_send |-> NoTime, end_send |-> NoTime,
     start_recv |-> NoTime, end_recv |-> NoTime, done |-> NoTime]

\* perf_counter()
perf_counter == clock

\* A latency whose network time starts when the send ends.
latency_from_end_send(b) ==
    [overall |-> b.done - b.init,
     network |-> b.end_recv - b.end_send,
     wait |-> b.start_recv - b.end_send]

\* BenchTest.latency(): Latency(overall, network, wait)
latency(b) ==
    [overall |-> b.done - b.init,
     network |-> b.end_recv - b.start_send,
     wait |-> b.start_recv - b.end_send]

\* ---------------------------------------------------------------- Record
\* Record(fields, values): self.__fields__ = fields; self.__values__ = values
Record(fs, values) == [fields |-> fs, values |-> values]

\* What a lookup gives: a value of the row, one of the two attributes
\* __init__ gave the object (both are tuples), an attribute of the class
\* (told by its name), or an error.
FieldValue(v) == [is |-> "value", val |-> <<v>>]
OwnAttribute(a) == [is |-> "attribute", val |-> a]
ClassAttribute(name) == [is |-> "class attribute", val |-> <<name>>]
AttributeError == [is |-> "AttributeError", val |-> <<>>]
IndexError == [is |-> "IndexError", val |-> <<>>]
TypeError == [is |-> "TypeError", val |-> <<>>]

\* The names Python finds on the class Record and on object: the methods
\* Record defines, and what every class and object has.
ClassAttributes ==
    {"__init__", "__repr__", "__eq__", "__ne__", "__len__", "__getitem__",
     "__getattr__", "__class__", "__delattr__", "__dict__", "__dir__",
     "__doc__", "__format__", "__ge__", "__getattribute__", "__getstate__",
     "__gt__", "__hash__", "__init_subclass__", "__le__", "__lt__",
     "__module__", "__new__", "__reduce__", "__reduce_ex__", "__setattr__",
     "__sizeof__", "__str__", "__subclasshook__", "__weakref__"}

\* list.index(item): the first position (from 0) holding item, or -1 for
\* ValueError.
index(fs, item) ==
    IF \E i \in 1..Len(fs) : fs[i] = item
    THEN (CHOOSE i \in 1..Len(fs) :
            fs[i] = item /\ \A j \in 1..(i - 1) : fs[j] # item) - 1
    ELSE 0 - 1

\* Record.__getattr__(item), which Python calls when the object has no
\* attribute of that name.
getattr_fallback(r, item) ==
    IF index(r.fields, item) < 0 THEN AttributeError
    ELSE FieldValue(r.values[index(r.fields, item) + 1])

\* getattr(record, item): the attributes __init__ gave the object and the
\* attributes of its class are found first, __getattr__ is the fallback.
getattr(r, item) ==
    IF item = "__fields__" THEN OwnAttribute(r.fields)
    ELSE IF item = "__values__" THEN OwnAttribute(r.values)
    ELSE IF item \in ClassAttributes THEN ClassAttribute(item)
    ELSE getattr_fallback(r, item)

\* Record.__getitem__(item) for a string
getitem_name(r, item) == getattr(r, item)

\* Record.__getitem__(item) for an integer: self.__fields__[item] counts
\* from 0, a negative item from the end, and raises IndexError outside.
getitem_position(r, item) ==
    IF item >= Len(r.fields) \/ item < 0 - Len(r.fields) THEN IndexError
    ELSE getattr(r, r.fields[(IF item < 0 THEN item + Len(r.fields)
                                          ELSE item) + 1])

\* Record.__getitem__(item) for an item that is neither: raise TypeError
getitem_other(r, item) == TypeError

\* Record.__len__()
len(r) == Len(r.fields)

\* Field lists with pairwise different names, and the Records over them.
FieldLists ==
    {fs \in UNION {[1..n -> FieldNames] : n \in 0..MaxFields} :
        \A i, j \in 1..Len(fs) : i # j => fs[i] # fs[j]}

Records ==
    UNION {{Record(fs, HydrateAll(row)) : row \in [1..Len(fs) -> RawValues]} :
             fs \in FieldLists}

\* Names a caller may look up: the column names and two more.
LookupNames == FieldNames \cup {"__fields__", "z"}

\* A way of looking up that was not used.
NotAsked == [is |-> "not asked", val |-> <<>>]

\* No lookup made yet.
NoLookup == [by |-> "none", at |-> 0, key |-> "", position |-> NotAsked,
             name |-> NotAsked, attribute |-> NotAsked]

\* ------------------------------------------------- the server's choices
\* Transaction's own statements produce no columns and no rows.
FieldChoices(stmt) == IF stmt \in UserStatements THEN UserFieldLists ELSE {<<>>}

\* Rows of raw values the server may emit for a result of the given shape:
\* one value per column, the values of a row pairwise different.
RowsFor(fs) ==
    IF fs = <<>> THEN {}
    ELSE {row \in [1..Len(fs) -> RawValues] :
            \A i, j \in 1..Len(fs) : i # j => row[i] # row[j]}

\* ------------------------------------------------------------ Connection
\* A queued request: its kind and statement, and for the record the call that
\* queued it (f is that call's frame).
Request(f, kind) ==
    [cid |-> f.cid, kind |-> kind, stmt |-> f.stmt, tx |-> f.tx,
     name |-> f.name]

ResponseOf(c, kind) == [cid |-> c, kind |-> kind]

Message(type, data, req) ==
    [type |-> type, data |-> data, cid |-> req.cid, kind |-> req.kind]

\* A summary message makes the response it is handed to terminal.
Terminal(m) == m.type \in {"SUCCESS", "FAILURE"}

\* Response.complete, for a response that was appended to the Connection.
Complete(resps, r) == \A i \in 1..Len(resps) : resps[i] # r

\* --------------------------------------------------------------- Session
NoFrame == [name |-> "none", caller |-> "none", cid |-> 0, tx |-> NoTx,
            stmt |-> "", before |-> FALSE]

SessionInit ==
    /\ transaction = NoTx
    /\ txs = <<>>
    /\ bench_tests = <<>>
    /\ outbox = <<>>
    /\ responses = <<>>
    /\ closes = 0
    /\ srvq = <<>>
    /\ wire = <<>>
    /\ srv = [failed |-> FALSE, fields |-> <<>>, rows |-> 0]
    /\ pc = "idle"
    /\ frame = NoFrame
    /\ result = "none"
    /\ ret = <<>>
    /\ fields = [c \in Calls |-> <<>>]
    /\ records = [c \in Calls |-> <<>>]
    /\ ncalls = 0
    /\ sentLog = <<>>
    /\ emitted = <<>>
    /\ steps = <<>>
    /\ failedRuns = {}
    /\ clock = 0
    /\ bench = [c \in Calls |-> BenchTest(c)]

\* A Session as constructed; no Record is being looked at.
Init == SessionInit /\ rec = Record(<<>>, <<>>) /\ got = NoLookup

\* The thread is free to make a call: none is in progress.
Ready == pc = "idle"

\* connection.close() has been called; session.py keeps no flag of it and
\* tests none.
ConnectionClosed == closes > 0

\* Transactions whose reference the caller holds.
Held == {t \in 1..Len(txs) : txs[t].returned}

\* Session.run up to the two Response objects: a fresh BenchTest, fresh
\* `fields` and `records` lists and the four callbacks closing over them.
EnterRun(name, caller, t, stmt, before) ==
    /\ ncalls < MaxCalls
    /\ ncalls' = ncalls + 1
    /\ frame' = [name |-> name, caller |-> caller, cid |-> ncalls + 1,
                 tx |-> t, stmt |-> stmt, before |-> before]
    /\ pc' = "append_run"
    /\ result' = "pending"
    /\ ret' = <<>>
    /\ fields' = [fields EXCEPT ![ncalls + 1] = <<>>]
    /\ records' = [records EXCEPT ![ncalls + 1] = <<>>]
    /\ emitted' = <<>>
    /\ steps' = <<>>
    /\ bench' = [bench EXCEPT
                    ![ncalls + 1] = [BenchTest(ncalls + 1) EXCEPT
                                        !.init = perf_counter]]

\* A failed assert: the call raises before it reaches Session.run.
AssertFails(name, t, before) ==
    /\ frame' = [name |-> name, caller |-> "none", cid |-> 0, tx |-> t,
                 stmt |-> "", before |-> before]
    /\ result' = "AssertionError"
    /\ ret' = <<>>
    /\ emitted' = <<>>
    /\ UNCHANGED <<clock, recordVars, pc, ncalls, fields, records, steps, bench>>

\* session.run(statement, parameters), called directly
SessionRun(stmt) ==
    /\ Ready
    /\ EnterRun("Session.run", "session", NoTx, stmt, FALSE)
    /\ UNCHANGED <<clock, recordVars, sessionVars, connVars, serverVars, sentLog>>

\* connection.append(RUN, (statement, parameters), response=run_response)
AppendRun ==
    /\ pc = "append_run"
    /\ outbox' = Append(outbox, Request(frame, "RUN"))
    /\ responses' = Append(responses, ResponseOf(frame.cid, "RUN"))
    /\ steps' = Append(steps, "enqueue_run")
    /\ pc' = "append_pull"
    /\ UNCHANGED <<clock, recordVars, bench, sessionVars, closes, serverVars, emitted, frame, result, ret,
                   closureVars, ncalls, sentLog>>

\* An append of PULL_ALL that also flushes the Connection.
AppendPullAllFlushing ==
    /\ pc = "append_pull"
    /\ responses' = Append(responses, ResponseOf(frame.cid, "PULL_ALL"))
    /\ srvq' = srvq \o Append(outbox, Request(frame, "PULL_ALL"))
    /\ sentLog' = sentLog \o Append(outbox, Request(frame, "PULL_ALL"))
    /\ outbox' = <<>>
    /\ steps' = steps \o <<"enqueue_pull", "flush">>
    /\ bench' = [bench EXCEPT ![frame.cid].start_send = perf_counter]
    /\ pc' = "send"
    /\ UNCHANGED <<clock, recordVars, sessionVars, closes, wire, srv, failedRuns, emitted, frame,
                   result, ret, closureVars, ncalls>>

\* connection.append(PULL_ALL, response=pull_all_response);
\* t.start_send = perf_counter()
AppendPullAll ==
    /\ pc = "append_pull"
    /\ outbox' = Append(outbox, Request(frame, "PULL_ALL"))
    /\ responses' = Append(responses, ResponseOf(frame.cid, "PULL_ALL"))
    /\ steps' = Append(steps, "enqueue_pull")
    /\ bench' = [bench EXCEPT ![frame.cid].start_send = perf_counter]
    /\ pc' = "send"
    /\ UNCHANGED <<clock, recordVars, sessionVars, closes, serverVars, emitted, frame, result, ret,
                   closureVars, ncalls, sentLog>>

\* connection.send(): everything queued goes to the server, in order;
\* t.end_send = perf_counter()
Send ==
    /\ pc = "send"
    /\ srvq' = srvq \o outbox
    /\ sentLog' = sentLog \o outbox
    /\ outbox' = <<>>
    /\ steps' = Append(steps, "flush")
    /\ bench' = [bench EXCEPT ![frame.cid].end_send = perf_counter]
    /\ pc' = "consume_run"
    /\ UNCHANGED <<clock, recordVars, sessionVars, responses, closes, wire, srv, emitted, failedRuns, frame,
                   result, ret, closureVars, ncalls>>

\* ------------------------------------------------- run()'s four callbacks
\* on_header: fields.extend(metadata["fields"])
on_header(fs, metadata) == fs \o metadata

\* on_header: t.start_recv = perf_counter()
on_header_time(b) == [b EXCEPT !.start_recv = perf_counter]

\* An on_footer that takes no timestamp.
on_footer_untimed(b) == b

\* on_footer: t.end_recv = perf_counter()
on_footer(b) == [b EXCEPT !.end_recv = perf_counter]

\* An on_record that puts the new Record first.
on_record_first(recs, fs, values) == <<Record(fs, HydrateAll(values))>> \o recs

\* on_record: records.append(Record(fields, tuple(map(hydrated, values))))
on_record(recs, fs, values) == Append(recs, Record(fs, HydrateAll(values)))

\* An on_failure that returns without raising.
on_failure_silent(metadata) == "none"

\* on_failure: raise CypherError("FAILURE"); the value is the error raised.
on_failure(metadata) == "CypherError"

\* Calls with a response still on the Connection.
Pending(resps) == {resps[i].cid : i \in 1..Len(resps)}

\* The `fields` and `records` lists of a call are reachable from its frame
\* while it runs and from the callbacks of its responses while the Connection
\* holds them; after that nothing can read or change them (what run()
\* returned is the caller's, see ret), and the model forgets them.
Forget(lists, live) == [c \in Calls |-> IF c \in live THEN lists[c] ELSE <<>>]

\* The same for the BenchTest of a call, once the call has ended (what run()
\* appended to bench_tests is the Session's).
ForgetBench(bs, live) ==
    [c \in Calls |-> IF c \in live THEN bs[c] ELSE BenchTest(c)]

\* A consume() that fetches once more after its response became complete.
AfterFetchOnceMore(resps) ==
    IF pc = "consume_run" /\ ~Complete(resps, ResponseOf(frame.cid, "RUN"))
    THEN "consume_run" ELSE "consume_pull"

\* Where run() stands once a message has been handled without an error:
\* run_response.consume() returns when the run-response is complete, then
\* pull_all_response.consume() returns when the pull-response is complete.
AfterFetch(resps) ==
    IF pc = "consume_run"
    THEN IF ~Complete(resps, ResponseOf(frame.cid, "RUN")) THEN "consume_run"
         ELSE IF ~Complete(resps, ResponseOf(frame.cid, "PULL_ALL"))
              THEN "consume_pull" ELSE "done"
    ELSE IF ~Complete(resps, ResponseOf(frame.cid, "PULL_ALL"))
         THEN "consume_pull" ELSE "done"

\* A run() that, when a callback raises, first consumes its pull-response.
UnwindAfterPull(resps) ==
    IF /\ Complete(resps, ResponseOf(frame.cid, "RUN"))
       /\ ~Complete(resps, ResponseOf(frame.cid, "PULL_ALL"))
    THEN "consume_pull" ELSE "idle"

\* Where run() stands once a callback has raised: neither consume() call is
\* inside a try, the error leaves run() there and then.
Unwind(resps) == "idle"

\* A close() that marks the Transaction closed although session.run raised.
AbandonCloseMarked(tx) == [tx EXCEPT !.closed = TRUE]

\* Transaction.close when its session.run raises: the call is not inside a
\* try, the two assignments after it are not reached.
AbandonClose(tx) == tx

\* A call on the Connection (append, send or the fetch inside consume) made
\* after connection.close().  What a closed Connection does with it is the
\* Connection's: it may serve the call like an open one (the actions above and
\* FetchNext), or refuse it with an error.  None of the calls is inside a
\* try, so the error leaves run() there and then, and the caller of run()
\* (Transaction.__init__, Transaction.close) with it.
ConnectionRefuses ==
    /\ ConnectionClosed
    /\ pc \in {"append_run", "append_pull", "send", "consume_run", "consume_pull"}
    /\ pc' = "idle"
    /\ result' = "OSError"
    /\ fields' = Forget(fields, Pending(responses))
    /\ records' = Forget(records, Pending(responses))
    /\ bench' = ForgetBench(bench, Pending(responses))
    /\ txs' = IF frame.caller = "tx_close"
              THEN [txs EXCEPT ![frame.tx] = AbandonClose(@)]
              ELSE txs
    /\ UNCHANGED <<clock, recordVars, transaction, bench_tests, connVars, serverVars,
                   emitted, frame, ret, ncalls, sentLog, steps>>

\* What the message means to the run call in progress (history only).
StepOf(m, r) ==
    IF r.cid # frame.cid THEN <<>>
    ELSE IF r.kind = "RUN"
         THEN (IF Terminal(m) THEN <<"run_terminal">> ELSE <<>>)
         ELSE <<"pull_callback">>

\* One turn of the loop in Response.consume(): the Connection takes the next
\* message and hands it to the oldest response that is not yet terminal; a
\* summary message makes that response terminal.  The response's callback
\* runs inside this call, so an error it raises unwinds out of run().
FetchNext ==
    /\ pc \in {"consume_run", "consume_pull"}
    /\ wire # <<>>
    /\ responses # <<>>
    /\ LET m == Head(wire)
           r == Head(responses)
           resps == IF Terminal(m) THEN Tail(responses) ELSE responses
           raised == IF m.type = "FAILURE" THEN on_failure(m.data) ELSE "none"
           live == Pending(resps) \cup (IF raised = "none" THEN {frame.cid} ELSE {})
       IN /\ wire' = Tail(wire)
          /\ responses' = resps
          /\ fields' = Forget(IF m.type = "SUCCESS" /\ r.kind = "RUN"
                              THEN [fields EXCEPT ![r.cid] = on_header(@, m.data)]
                              ELSE fields, live)
          /\ records' = Forget(IF m.type = "RECORD" /\ r.kind = "PULL_ALL"
                               THEN [records EXCEPT
                                  ![r.cid] = on_record(@, fields[r.cid], m.data)]
                               ELSE records, live)
          /\ bench' = ForgetBench(
                 IF m.type = "SUCCESS" /\ r.kind = "RUN"
                 THEN [bench EXCEPT ![r.cid] = on_header_time(@)]
                 ELSE IF m.type = "SUCCESS" /\ r.kind = "PULL_ALL"
                      THEN [bench EXCEPT ![r.cid] = on_footer(@)]
                      ELSE bench, live)
          /\ steps' = steps \o StepOf(m, r)
          /\ IF raised # "none"
             THEN pc' = Unwind(resps) /\ result' = raised
             ELSE pc' = AfterFetch(resps) /\ result' = result
          /\ txs' = IF raised # "none" /\ frame.caller = "tx_close"
                    THEN [txs EXCEPT ![frame.tx] = AbandonClose(@)]
                    ELSE txs
    /\ UNCHANGED <<clock, recordVars, transaction, bench_tests, outbox, closes, srvq, srv, emitted, failedRuns, frame, ret,
                   ncalls, sentLog>>

\* A run() that puts its BenchTest first in the list.
BenchPrepend ==
    <<[bench[frame.cid] EXCEPT !.done = perf_counter]>> \o bench_tests

\* t.done = perf_counter(); self.bench_tests.append(t)
BenchAppend ==
    Append(bench_tests, [bench[frame.cid] EXCEPT !.done = perf_counter])

\* run() returns `records` to a caller of Session.run or Transaction.run.
RunReturns ==
    /\ pc = "done"
    /\ frame.caller \in {"session", "tx_run"}
    /\ bench_tests' = BenchAppend
    /\ ret' = records[frame.cid]
    /\ result' = "ok"
    /\ pc' = "idle"
    /\ fields' = Forget(fields, Pending(responses))
    /\ records' = Forget(records, Pending(responses))
    /\ bench' = ForgetBench(bench, Pending(responses))
    /\ UNCHANGED <<clock, recordVars, transaction, txs, connVars, serverVars, emitted, frame,
                   ncalls, sentLog, steps>>

\* ----------------------------------------------------------- Transaction
\* A Transaction object as constructed: the class attributes success = False
\* and closed = False.
NewTx == [success |-> FALSE, closed |-> FALSE, returned |-> FALSE]

\* A new_transaction without its assert.
SlotFreeUnchecked == TRUE

\* new_transaction: assert not self.transaction
SlotFree == transaction = NoTx

\* Transaction.run and Transaction.close without their assert.
NotClosedUnchecked(tx) == TRUE

\* Transaction.run and Transaction.close: assert not self.closed
NotClosed(tx) == ~tx.closed

\* A close that always rolls back.
CloseStatementRollback(s) == "ROLLBACK"

\* Transaction.close: COMMIT if self.success else ROLLBACK
CloseStatement(s) == IF s THEN "COMMIT" ELSE "ROLLBACK"

\* A close that leaves the closed flag as it was.
MarkClosedForgotten(tx) == tx

\* Transaction.close: self.closed = True
MarkClosed(tx) == [tx EXCEPT !.closed = TRUE]

\* A close that leaves the Transaction in the Session's slot.
SlotAfterCloseKept(t) == t

\* Transaction.close, last line: self.session.transaction = None
SlotAfterClose(t) == NoTx

\* session.new_transaction(): the assert, then Transaction(self), whose
\* __init__ runs BEGIN through the session.
NewTransaction ==
    /\ Ready
    /\ \/ /\ ~SlotFree
          /\ AssertFails("new_transaction", NoTx, FALSE)
          /\ UNCHANGED <<clock, recordVars, sessionVars, connVars, serverVars, sentLog>>
       \/ /\ SlotFree
          /\ EnterRun("new_transaction", "begin", Len(txs) + 1, "BEGIN", FALSE)
          /\ txs' = Append(txs, NewTx)
          /\ UNCHANGED <<clock, recordVars, transaction, bench_tests, connVars, serverVars,
                         sentLog>>

\* BEGIN has run: __init__ returns, new_transaction stores the Transaction in
\* the slot and returns it.
InitReturns ==
    /\ pc = "done"
    /\ frame.caller = "begin"
    /\ bench_tests' = BenchAppend
    /\ transaction' = frame.tx
    /\ txs' = [txs EXCEPT ![frame.tx].returned = TRUE]
    /\ result' = "ok"
    /\ pc' = "idle"
    /\ fields' = Forget(fields, Pending(responses))
    /\ records' = Forget(records, Pending(responses))
    /\ bench' = ForgetBench(bench, Pending(responses))
    /\ UNCHANGED <<clock, recordVars, connVars, serverVars, emitted, frame, ret, ncalls, sentLog,
                   steps>>

\* Transaction(session), the constructor called directly: __init__ has neither
\* the assert nor the assignment of new_transaction; it keeps the session and
\* runs BEGIN through it.
TransactionInit ==
    /\ Ready
    /\ EnterRun("Transaction", "init", Len(txs) + 1, "BEGIN", FALSE)
    /\ txs' = Append(txs, NewTx)
    /\ UNCHANGED <<clock, recordVars, transaction, bench_tests, connVars, serverVars,
                   sentLog>>

\* BEGIN has run: __init__ returns and the caller has the Transaction; the
\* session's slot is left as it was.
TransactionReturns ==
    /\ pc = "done"
    /\ frame.caller = "init"
    /\ bench_tests' = BenchAppend
    /\ txs' = [txs EXCEPT ![frame.tx].returned = TRUE]
    /\ result' = "ok"
    /\ pc' = "idle"
    /\ fields' = Forget(fields, Pending(responses))
    /\ records' = Forget(records, Pending(responses))
    /\ bench' = ForgetBench(bench, Pending(responses))
    /\ UNCHANGED <<clock, recordVars, transaction, connVars, serverVars, emitted, frame, ret,
                   ncalls, sentLog, steps>>

\* tx.success = b, assigned by the caller
SetSuccess(t, b) ==
    /\ Ready
    /\ t \in Held
    /\ txs[t].success # b
    /\ txs' = [txs EXCEPT ![t].success = b]
    /\ UNCHANGED <<clock, recordVars, bench, transaction, bench_tests, connVars, serverVars, emitted, pc, frame,
                   result, ret, closureVars, ncalls, sentLog, steps>>

\* tx.run(statement, parameters)
TxRun(t, stmt) ==
    /\ Ready
    /\ t \in Held
    /\ \/ /\ ~NotClosed(txs[t])
          /\ AssertFails("Transaction.run", t, txs[t].success)
       \/ /\ NotClosed(txs[t])
          /\ EnterRun("Transaction.run", "tx_run", t, stmt, txs[t].success)
    /\ UNCHANGED <<clock, recordVars, sessionVars, connVars, serverVars, sentLog>>

\* The body of Transaction.close, entered with self.success = s.
CloseBody(name, t, s) ==
    /\ txs' = [txs EXCEPT ![t].success = s]
    /\ \/ /\ ~NotClosed(txs[t])
          /\ AssertFails(name, t, txs[t].success)
       \/ /\ NotClosed(txs[t])
          /\ EnterRun(name, "tx_close", t, CloseStatement(s), txs[t].success)
    /\ UNCHANGED <<clock, recordVars, transaction, bench_tests, connVars, serverVars, sentLog>>

\* tx.commit(): self.success = True; self.close()
TxCommit(t) == Ready /\ t \in Held /\ CloseBody("commit", t, TRUE)

\* tx.rollback(): self.success = False; self.close()
TxRollback(t) == Ready /\ t \in Held /\ CloseBody("rollback", t, FALSE)

\* tx.close(), also the end of a `with` block over the Transaction
TxClose(t) == Ready /\ t \in Held /\ CloseBody("close", t, txs[t].success)

\* COMMIT or ROLLBACK has run: close() marks the Transaction closed and
\* empties the Session's slot.
CloseReturns ==
    /\ pc = "done"
    /\ frame.caller = "tx_close"
    /\ bench_tests' = BenchAppend
    /\ txs' = [txs EXCEPT ![frame.tx] = MarkClosed(@)]
    /\ transaction' = SlotAfterClose(frame.tx)
    /\ result' = "ok"
    /\ pc' = "idle"
    /\ fields' = Forget(fields, Pending(responses))
    /\ records' = Forget(records, Pending(responses))
    /\ bench' = ForgetBench(bench, Pending(responses))
    /\ UNCHANGED <<clock, recordVars, connVars, serverVars, emitted, frame, ret, ncalls, sentLog,
                   steps>>

\* session.close(), also the end of a `with` block over the Session:
\* self.connection.close()
SessionClose ==
    /\ pc = "idle"
    /\ closes < MaxClose
    /\ closes' = closes + 1
    /\ frame' = [NoFrame EXCEPT !.name = "Session.close"]
    /\ result' = "ok"
    /\ ret' = <<>>
    /\ emitted' = <<>>
    /\ UNCHANGED <<clock, recordVars, bench, sessionVars, outbox, responses, serverVars, pc, closureVars,
                   ncalls, sentLog, steps>>

\* ---------------------------------------------------------------- server
\* The server answers the requests in the order they were flushed: a
\* query-execution request with a header or a failure, a result-stream
\* request with the rows of the statement just executed and a footer, or
\* with a failure.  After a failed query-execution request there is no
\* result to stream, and the result-stream request fails too.
ServerRunSuccess ==
    /\ srvq # <<>>
    /\ Head(srvq).kind = "RUN"
    /\ \E fs \in FieldChoices(Head(srvq).stmt) :
          /\ wire' = Append(wire, Message("SUCCESS", fs, Head(srvq)))
          /\ srv' = [failed |-> FALSE, fields |-> fs, rows |-> 0]
    /\ srvq' = Tail(srvq)
    /\ UNCHANGED <<clock, recordVars, bench, sessionVars, connVars, emitted, failedRuns, pc, frame, result, ret,
                   closureVars, ncalls, sentLog, steps>>

ServerRunFailure ==
    /\ srvq # <<>>
    /\ Head(srvq).kind = "RUN"
    /\ wire' = Append(wire, Message("FAILURE", <<>>, Head(srvq)))
    /\ srv' = [failed |-> TRUE, fields |-> <<>>, rows |-> 0]
    /\ srvq' = Tail(srvq)
    /\ failedRuns' = failedRuns \cup {Head(srvq).cid}
    /\ UNCHANGED <<clock, recordVars, bench, sessionVars, connVars, emitted, pc, frame, result, ret,
                   closureVars, ncalls, sentLog, steps>>

ServerRecord ==
    /\ srvq # <<>>
    /\ Head(srvq).kind = "PULL_ALL"
    /\ ~srv.failed
    /\ srv.rows < MaxRows
    /\ \E row \in RowsFor(srv.fields) :
          /\ wire' = Append(wire, Message("RECORD", row, Head(srvq)))
          /\ emitted' = IF Head(srvq).cid = frame.cid
                        THEN Append(emitted, row) ELSE emitted
    /\ srv' = [srv EXCEPT !.rows = @ + 1]
    /\ UNCHANGED <<clock, recordVars, bench, sessionVars, connVars, srvq, failedRuns, pc, frame, result, ret,
                   closureVars, ncalls, sentLog, steps>>

ServerPullSuccess ==
    /\ srvq # <<>>
    /\ Head(srvq).kind = "PULL_ALL"
    /\ ~srv.failed
    /\ wire' = Append(wire, Message("SUCCESS", <<>>, Head(srvq)))
    /\ srvq' = Tail(srvq)
    /\ UNCHANGED <<clock, recordVars, bench, sessionVars, connVars, srv, emitted, failedRuns, pc, frame, result, ret,
                   closureVars, ncalls, sentLog, steps>>

ServerPullFailure ==
    /\ srvq # <<>>
    /\ Head(srvq).kind = "PULL_ALL"
    /\ wire' = Append(wire, Message("FAILURE", <<>>, Head(srvq)))
    /\ srvq' = Tail(srvq)
    /\ UNCHANGED <<clock, recordVars, bench, sessionVars, connVars, srv, emitted, failedRuns, pc, frame, result, ret,
                   closureVars, ncalls, sentLog, steps>>

\* --------------------------------------------------------- specification
Next ==
    \/ \E stmt \in UserStatements : SessionRun(stmt)
    \/ AppendRun
    \/ AppendPullAll
    \/ Send
    \/ ConnectionRefuses
    \/ FetchNext
    \/ RunReturns
    \/ NewTransaction
    \/ InitReturns
    \/ TransactionInit
    \/ TransactionReturns
    \/ \E t \in 1..Len(txs), b \in BOOLEAN : SetSuccess(t, b)
    \/ \E t \in 1..Len(txs), stmt \in UserStatements : TxRun(t, stmt)
    \/ \E t \in 1..Len(txs) : TxCommit(t)
    \/ \E t \in 1..Len(txs) : TxRollback(t)
    \/ \E t \in 1..Len(txs) : TxClose(t)
    \/ CloseReturns
    \/ SessionClose
    \/ ServerRunSuccess
    \/ ServerRunFailure
    \/ ServerRecord
    \/ ServerPullSuccess
    \/ ServerPullFailure

\* The Session and the server with the clock standing still: every reading
\* of the performance counter returns the same value.
Spec == Init /\ [][Next]_vars

\* The calls of a program that takes its Transactions from new_transaction()
\* and has not closed the Session.
OpenNext ==
    \/ \E stmt \in UserStatements : SessionRun(stmt)
    \/ AppendRun
    \/ AppendPullAll
    \/ Send
    \/ FetchNext
    \/ RunReturns
    \/ NewTransaction
    \/ InitReturns
    \/ \E t \in 1..Len(txs), b \in BOOLEAN : SetSuccess(t, b)
    \/ \E t \in 1..Len(txs), stmt \in UserStatements : TxRun(t, stmt)
    \/ \E t \in 1..Len(txs) : TxCommit(t)
    \/ \E t \in 1..Len(txs) : TxRollback(t)
    \/ \E t \in 1..Len(txs) : TxClose(t)
    \/ CloseReturns
    \/ ServerRunSuccess
    \/ ServerRunFailure
    \/ ServerRecord
    \/ ServerPullSuccess
    \/ ServerPullFailure

SpecOpen == Init /\ [][OpenNext]_vars

\* The thread that called run() keeps running: whenever run() can take its
\* next step, it does.
RunStep ==
    \/ AppendRun
    \/ AppendPullAll
    \/ Send
    \/ FetchNext
    \/ RunReturns
    \/ InitReturns
    \/ CloseReturns

\* The server ends its reply to every request it has received with a
\* summary message.
ServerEndsRun == ServerRunSuccess \/ ServerRunFailure
ServerEndsPull == ServerPullSuccess \/ ServerPullFailure

\* The calls that run statements, and the server.  Assigning tx.success and
\* closing the Session start no run and are left out.
FairNext ==
    \/ \E stmt \in UserStatements : SessionRun(stmt)
    \/ AppendRun
    \/ AppendPullAll
    \/ Send
    \/ FetchNext
    \/ RunReturns
    \/ NewTransaction
    \/ InitReturns
    \/ \E t \in 1..Len(txs), stmt \in UserStatements : TxRun(t, stmt)
    \/ \E t \in 1..Len(txs) : TxCommit(t)
    \/ \E t \in 1..Len(txs) : TxRollback(t)
    \/ \E t \in 1..Len(txs) : TxClose(t)
    \/ CloseReturns
    \/ ServerRunSuccess
    \/ ServerRunFailure
    \/ ServerRecord
    \/ ServerPullSuccess
    \/ ServerPullFailure

SpecFair ==
    /\ Init
    /\ [][FairNext]_vars
    /\ WF_vars(RunStep)
    /\ WF_vars(ServerEndsRun)
    /\ WF_vars(ServerEndsPull)

\* Time passes: the performance counter never goes back.
Tick ==
    /\ clock < MaxClock
    /\ clock' = clock + 1
    /\ UNCHANGED <<sessionVars, connVars, serverVars, closureVars, recordVars,
                   pc, frame, result, ret, ncalls, sentLog, emitted, steps,
                   bench>>

\* Session.run called directly, and the server, while time passes.  (The
\* calls a Transaction makes go through the same Session.run.)
TimedNext ==
    \/ \E stmt \in UserStatements : SessionRun(stmt)
    \/ AppendRun
    \/ AppendPullAll
    \/ Send
    \/ FetchNext
    \/ RunReturns
    \/ ServerRunSuccess
    \/ ServerRunFailure
    \/ ServerRecord
    \/ ServerPullSuccess
    \/ ServerPullFailure
    \/ Tick

SpecTimed == Init /\ [][TimedNext]_vars

\* ------------------------------------------------------- Record lookups
\* Some Record a run has returned.
RecordInit == SessionInit /\ rec \in Records /\ got = NoLookup

\* The caller looks up position i of the Record in the three ways: by
\* position, by the name of the field at that position, by attribute.
Lookup(i) ==
    /\ 0 <= i /\ i < len(rec)
    /\ got' = [by |-> "position", at |-> i, key |-> rec.fields[i + 1],
               position |-> getitem_position(rec, i),
               name |-> getitem_name(rec, rec.fields[i + 1]),
               attribute |-> getattr(rec, rec.fields[i + 1])]
    /\ UNCHANGED <<sessionVars, connVars, serverVars, closureVars, rec, pc,
                   frame, result, ret, ncalls, sentLog, emitted, steps, clock,
                   bench>>

\* record[i] for a position outside 0..len-1.
LookupOutside(i) ==
    /\ i < 0 \/ i >= len(rec)
    /\ got' = [NoLookup EXCEPT !.by = "outside", !.at = i,
                               !.position = getitem_position(rec, i)]
    /\ UNCHANGED <<sessionVars, connVars, serverVars, closureVars, rec, pc,
                   frame, result, ret, ncalls, sentLog, emitted, steps, clock,
                   bench>>

\* record[a] and record.a for a name a.
LookupName(a) ==
    /\ got' = [NoLookup EXCEPT !.by = "name", !.key = a,
                               !.name = getitem_name(rec, a),
                               !.attribute = getattr(rec, a)]
    /\ UNCHANGED <<sessionVars, connVars, serverVars, closureVars, rec, pc,
                   frame, result, ret, ncalls, sentLog, emitted, steps, clock,
                   bench>>

\* record[item] for an item that is neither an integer nor a string (the
\* empty tuple stands for it).
LookupOther ==
    /\ got' = [NoLookup EXCEPT !.by = "other",
                               !.position = getitem_other(rec, <<>>)]
    /\ UNCHANGED <<sessionVars, connVars, serverVars, closureVars, rec, pc,
                   frame, result, ret, ncalls, sentLog, emitted, steps, clock,
                   bench>>

RecordNext ==
    \/ \E i \in 0..(MaxFields - 1) : Lookup(i)
    \/ \E i \in (0 - MaxFields - 1)..MaxFields : LookupOutside(i)
    \/ \E a \in LookupNames : LookupName(a)
    \/ LookupOther

SpecRecord == RecordInit /\ [][RecordNext]_vars

\* ================================================================ claims
\* Run call c returned normally: run() appended its BenchTest on the way out.
Returned(c) == \E i \in 1..Len(bench_tests) : bench_tests[i].cid = c

\* Transactions obtained from new_transaction() that are open.
OpenTxs == {t \in Held : ~txs[t].closed}

\* This step is a call of the named API operation.
Called(name) == pc = "idle" /\ frame' # frame /\ frame'.name = name

\* This step is a call that the callee refuses with a failed assert: the
\* call is over within the step and nothing was queued, sent or fetched.
Refused ==
    /\ pc' = "idle"
    /\ result' = "AssertionError"
    /\ outbox' = outbox /\ responses' = responses
    /\ srvq' = srvq /\ sentLog' = sentLog /\ wire' = wire
    /\ ncalls' = ncalls

\* C1: in every reachable state at most one Transaction obtained from
\* new_transaction() is open (closed = false).
C1_AtMostOneOpen == Cardinality(OpenTxs) <= 1

\* C1 witness: a second Transaction is open after a first one was closed.
C1_Witness ==
    \E t1, t2 \in Held : t1 # t2 /\ txs[t1].closed /\ ~txs[t2].closed

\* C2: new_transaction() on an occupied slot fails with an assertion error,
\* queues and sends nothing, and leaves the slot and every Transaction's
\* success and closed flags as they were.
C2_SecondTransactionRefused ==
    [][(transaction # NoTx /\ Called("new_transaction"))
         => (Refused /\ transaction' = transaction /\ txs' = txs)]_vars

\* C2 witness: new_transaction() has just failed while a Transaction is open.
C2_Witness ==
    /\ pc = "idle"
    /\ frame.name = "new_transaction"
    /\ result = "AssertionError"
    /\ transaction \in OpenTxs

\* C3: the slot is non-empty only if it references a Transaction that
\* new_transaction() returned and that is not closed; it is empty after a
\* new_transaction() whose BEGIN failed and after a close() that completed.
C3_SlotOnlyWhileOpen ==
    /\ transaction # NoTx => transaction \in OpenTxs
    /\ (pc = "idle" /\ frame.caller = "begin" /\ result = "CypherError")
          => transaction = NoTx
    /\ (pc = "idle" /\ frame.caller = "tx_close" /\ result = "ok")
          => transaction = NoTx

\* C3 witness: a Transaction was closed and the next BEGIN failed.
C3_Witness ==
    /\ pc = "idle"
    /\ frame.caller = "begin"
    /\ result = "CypherError"
    /\ \E t \in Held : txs[t].closed

\* The query-execution requests flushed on behalf of Transaction t, in order.
TxStatements(t) ==
    SelectSeq(sentLog, LAMBDA q : q.kind = "RUN" /\ q.tx = t)

\* The request is the COMMIT or ROLLBACK of a commit(), rollback() or close().
Terminator(q) == q.name \in {"commit", "rollback", "close"}

\* The named operation was called on open Transaction t and sent its
\* statement.
SentBy(name, t) ==
    \E i \in 1..Len(sentLog) : sentLog[i].tx = t /\ sentLog[i].name = name

\* The named operation was called on open Transaction t and returned
\* normally.
ReturnedBy(name, t) ==
    \E i \in 1..Len(sentLog) :
        sentLog[i].tx = t /\ sentLog[i].name = name /\ Returned(sentLog[i].cid)

\* This step is a run, commit, rollback or close call on Transaction t.
CalledOn(t) ==
    /\ pc = "idle"
    /\ frame' # frame
    /\ frame'.tx = t
    /\ frame'.name \in {"Transaction.run", "commit", "rollback", "close"}

\* C4 as stated: once commit() has been called on a Transaction, whether it
\* returned or raised, every further run, commit, rollback or close call on
\* it fails with an assertion error and sends nothing.
C4_AfterCommitCalled ==
    [][\A t \in 1..Len(txs) :
          (SentBy("commit", t) /\ CalledOn(t)) => Refused]_vars

\* C4 amended: once commit() has returned normally on a Transaction, every
\* further run, commit, rollback or close call on it fails with an assertion
\* error and sends nothing.
C4_AfterCommitReturned ==
    [][\A t \in 1..Len(txs) :
          (ReturnedBy("commit", t) /\ CalledOn(t)) => Refused]_vars

\* C4 witness: run() was refused on a Transaction whose commit() returned.
C4_Witness ==
    /\ pc = "idle"
    /\ frame.name = "Transaction.run"
    /\ result = "AssertionError"
    /\ ReturnedBy("commit", frame.tx)

\* A rollback() call on an open Transaction has ended, by return or by raise.
RollbackEnded == pc = "idle" /\ frame.name = "rollback" /\ frame.caller = "tx_close"

\* new_transaction() passed its assert and entered Session.run with BEGIN.
BeginEntered ==
    /\ pc' = "append_run"
    /\ frame'.caller = "begin"
    /\ frame'.stmt = "BEGIN"
    /\ transaction' = NoTx

\* A new_transaction() whose BEGIN ran sent BEGIN and returns a new, open
\* Transaction, which the slot references.
BeginReturnsOpen ==
    (pc = "done" /\ frame.caller = "begin" /\ pc' = "idle")
        => /\ result' = "ok"
           /\ transaction' = frame.tx
           /\ frame.tx \notin Held
           /\ transaction' \in {t \in 1..Len(txs') : txs'[t].returned /\ ~txs'[t].closed}
           /\ \E i \in 1..Len(sentLog) :
                 sentLog[i].cid = frame.cid /\ sentLog[i].stmt = "BEGIN"

\* C5 as stated: after a rollback() call on an open Transaction the slot is
\* empty, and a following new_transaction() passes the guard, sends BEGIN and
\* returns a new open Transaction.
C5_AfterRollbackCalled ==
    [][/\ RollbackEnded
          => (transaction = NoTx /\ (Called("new_transaction") => BeginEntered))
       /\ BeginReturnsOpen]_vars

\* C5 amended: after a rollback() call on an open Transaction has returned
\* normally the slot is empty, and a following new_transaction() passes the
\* guard and runs BEGIN; when that BEGIN succeeds BEGIN was sent and
\* new_transaction() returns a new open Transaction.
C5_AfterRollbackReturned ==
    [][/\ (RollbackEnded /\ result = "ok")
          => (transaction = NoTx /\ (Called("new_transaction") => BeginEntered))
       /\ BeginReturnsOpen]_vars

\* C5 witness: a Transaction was rolled back and a later new_transaction()
\* returned a new open one.
C5_Witness ==
    /\ pc = "idle"
    /\ frame.name = "new_transaction"
    /\ result = "ok"
    /\ transaction \in OpenTxs
    /\ \E t \in Held : t # transaction /\ ReturnedBy("rollback", t)

\* The statement a commit, rollback or close call has to send; f is the
\* call's frame, f.before the value of success when the call was made.
Expected(f) ==
    CASE f.name = "commit" -> "COMMIT"
      [] f.name = "rollback" -> "ROLLBACK"
      [] f.name = "close" -> IF f.before THEN "COMMIT" ELSE "ROLLBACK"

\* C6: close() on an open Transaction sends COMMIT if success was true when
\* close() was called and ROLLBACK otherwise; commit() sends COMMIT and
\* rollback() sends ROLLBACK, whatever success was before.
C6_CloseSendsBySuccess ==
    /\ frame.caller = "tx_close" => frame.stmt = Expected(frame)
    /\ (frame.caller = "tx_close" /\ pc \in {"consume_run", "consume_pull", "done"})
          => \E i \in 1..Len(sentLog) :
                /\ sentLog[i] = Request(frame, "RUN")
                /\ sentLog[i].stmt = Expected(frame)
    /\ \A i \in 1..Len(sentLog) :
          /\ sentLog[i].name = "commit" => sentLog[i].stmt = "COMMIT"
          /\ sentLog[i].name = "rollback" => sentLog[i].stmt = "ROLLBACK"

\* C6 witness: close() was called with success true, after a rollback() on
\* the same Transaction had failed and left success false, and has sent
\* COMMIT.
C6_Witness ==
    /\ frame.name = "close"
    /\ frame.before
    /\ SentBy("rollback", frame.tx)
    /\ \E i \in 1..Len(sentLog) :
          sentLog[i].cid = frame.cid /\ sentLog[i].stmt = "COMMIT"

\* The statements sent for a Transaction start with its BEGIN, which is the
\* only BEGIN among them, and follow in call order.
BracketOpens(q) ==
    /\ Len(q) > 0 => q[1].stmt = "BEGIN" /\ q[1].name = "new_transaction"
    /\ \A i \in 2..Len(q) : q[i].stmt # "BEGIN" /\ q[i].cid > q[i - 1].cid

\* C7 as stated: per Transaction the statements sent are BEGIN, then the
\* statements of its run() calls, then one COMMIT or ROLLBACK; a second
\* COMMIT or ROLLBACK is never sent.
C7_OneTerminator ==
    \A t \in 1..Len(txs) :
        LET q == TxStatements(t)
        IN /\ BracketOpens(q)
           /\ \A i \in 1..Len(q) : Terminator(q[i]) => i = Len(q)

\* C7 amended: per Transaction the statements sent are BEGIN, then the
\* statements of its run, commit, rollback and close calls in call order; a
\* COMMIT or ROLLBACK that completed is the last statement sent for it and
\* has closed it, so one that is followed by another statement has failed.
C7_OneCompletedTerminator ==
    \A t \in 1..Len(txs) :
        LET q == TxStatements(t)
        IN /\ BracketOpens(q)
           /\ \A i \in 1..Len(q) :
                 (Terminator(q[i]) /\ Returned(q[i].cid))
                     => (i = Len(q) /\ txs[t].closed)

\* C7 witness: a COMMIT failed, the Transaction stayed open, and a second
\* terminating statement completed and closed it.
C7_Witness ==
    \E t \in Held :
        LET q == TxStatements(t)
        IN /\ Len(q) = 3
           /\ Terminator(q[2]) /\ Terminator(q[3])
           /\ Returned(q[3].cid)
           /\ txs[t].closed

\* The order of the steps of one Session.run call.
StepOrder(i) ==
    CASE i = 1 -> "enqueue_run"
      [] i = 2 -> "enqueue_pull"
      [] i = 3 -> "flush"
      [] i = 4 -> "run_terminal"
      [] OTHER -> "pull_callback"

\* C8: within a Session.run call the query-execution request is queued,
\* then the result-stream request, then the Connection is flushed once, with
\* no flush between the two; then the run-response is consumed until it is
\* terminal, and only then is the pull-response consumed: none of its
\* callbacks fires before the run-response is terminal.
C8_RunStepOrder ==
    /\ \A i \in 1..Len(steps) : steps[i] = StepOrder(i)
    /\ pc = "append_pull" =>
          /\ steps = <<"enqueue_run">>
          /\ Len(outbox) >= 1 /\ outbox[Len(outbox)] = Request(frame, "RUN")
    /\ pc = "send" =>
          /\ steps = <<"enqueue_run", "enqueue_pull">>
          /\ Len(outbox) >= 2
          /\ outbox[Len(outbox) - 1] = Request(frame, "RUN")
          /\ outbox[Len(outbox)] = Request(frame, "PULL_ALL")
    /\ pc = "consume_run" =>
          /\ steps = <<"enqueue_run", "enqueue_pull", "flush">>
          /\ outbox = <<>>
          /\ ~Complete(responses, ResponseOf(frame.cid, "RUN"))
          /\ ~Complete(responses, ResponseOf(frame.cid, "PULL_ALL"))
    /\ pc = "consume_pull" =>
          /\ Len(steps) >= 4
          /\ Complete(responses, ResponseOf(frame.cid, "RUN"))
          /\ ~Complete(responses, ResponseOf(frame.cid, "PULL_ALL"))
    /\ pc = "done" =>
          /\ Len(steps) >= 5
          /\ Complete(responses, ResponseOf(frame.cid, "RUN"))
          /\ Complete(responses, ResponseOf(frame.cid, "PULL_ALL"))

\* C8 witness: a run call has consumed its header, two records and the
\* footer and is about to return.
C8_Witness == pc = "done" /\ Len(steps) = 7

\* C9: a run() that returns normally returns one Record per record message
\* the server emitted for its result stream, in emission order, the Nth
\* Record holding the hydrated values of the Nth message.
C9_RecordsInEmissionOrder ==
    (pc = "idle" /\ result = "ok" /\ frame.caller \in {"session", "tx_run"})
        => /\ Len(ret) = Len(emitted)
           /\ \A n \in 1..Len(ret) :
                 /\ Len(ret[n].values) = Len(emitted[n])
                 /\ \A i \in 1..Len(emitted[n]) :
                       ret[n].values[i] = hydrated(emitted[n][i])

\* C9 witness: a run() returned two different Records.
C9_Witness ==
    /\ pc = "idle" /\ result = "ok" /\ frame.caller \in {"session", "tx_run"}
    /\ Len(ret) = 2
    /\ ret[1] # ret[2]

\* C10: a run() call whose query-execution request the server fails raises
\* CypherError, returns nothing, and gets no Record.
C10_FailedRunRaises ==
    \A c \in failedRuns :
        /\ ~Returned(c)
        /\ records[c] = <<>>
        /\ c = frame.cid =>
              /\ pc \in {"consume_run", "idle"}
              /\ result \in {"pending", "CypherError"}
              /\ pc = "idle" => result = "CypherError"
              /\ ret = <<>>

\* C10 witness: the server failed the query-execution request of the call
\* that has just raised CypherError.
C10_Witness ==
    /\ pc = "idle"
    /\ frame.cid \in failedRuns
    /\ result = "CypherError"

\* The six timestamps of a BenchTest, in the order run() takes them.
Stamps(b) == <<b.init, b.start_send, b.end_send, b.start_recv, b.end_recv,
               b.done>>

\* C11: every BenchTest that run() appended has all six timestamps set, and
\* init <= start_send <= end_send <= start_recv <= end_recv <= done.
C11_TimestampsOrdered ==
    \A i \in 1..Len(bench_tests) :
        /\ \A k \in 1..6 : Stamps(bench_tests[i])[k] # NoTime
        /\ \A k \in 1..5 :
              Stamps(bench_tests[i])[k] <= Stamps(bench_tests[i])[k + 1]

\* Two runs raised, the second of them on the failure left over from the
\* first; the third took the messages left over from the second and then
\* its own, returned, and the clock moved while it ran.
C11_Witness ==
    /\ Len(bench_tests) = 1
    /\ bench_tests[1].cid = 3
    /\ bench_tests[1].init < bench_tests[1].done

\* C12 as stated: overall = (end_send - start_send) + wait + network.
C12_OverallIsSum ==
    \A i \in 1..Len(bench_tests) :
        LET b == bench_tests[i]
            l == latency(b)
        IN l.overall = (b.end_send - b.start_send) + l.wait + l.network

\* C12: the network time is the send time plus the wait plus the receive
\* time, the overall time is the network time plus what run() spends before
\* the send and after the footer, and so overall >= network >= wait >= 0.
C12_LatencyNested ==
    \A i \in 1..Len(bench_tests) :
        LET b == bench_tests[i]
            l == latency(b)
        IN /\ l.network = (b.end_send - b.start_send) + l.wait
                             + (b.end_recv - b.start_recv)
           /\ l.overall = (b.start_send - b.init) + l.network
                             + (b.done - b.end_recv)
           /\ l.overall >= l.network
           /\ l.network >= l.wait
           /\ l.wait >= 0

\* A run returned whose send took time.
C12_Witness ==
    \E i \in 1..Len(bench_tests) :
        /\ bench_tests[i].start_send < bench_tests[i].end_send
        /\ latency(bench_tests[i]).network > latency(bench_tests[i]).wait

\* C13: over the Session's life the Connection is closed through
\* Session.close() only, and never a second time.
C13_ClosedOnce ==
    [][closes' # closes => closes = 0 /\ frame'.name = "Session.close"]_vars

\* C14: for every position of a Record, the lookup by position, the lookup
\* by the name of the field at that position and the attribute lookup of
\* that name all return the value of the row at that position.
C14_LookupsAgree ==
    got.by = "position" =>
        /\ got.position = FieldValue(rec.values[got.at + 1])
        /\ got.name = FieldValue(rec.values[got.at + 1])
        /\ got.attribute = FieldValue(rec.values[got.at + 1])

\* The requests the call in `frame` has flushed.
SentByFrame == SelectSeq(sentLog, LAMBDA q : q.cid = frame.cid)

\* The run call in `frame` has raised on the failure of its own run-response.
RunResponseFailed ==
    /\ pc = "idle"
    /\ result = "CypherError"
    /\ frame.cid \in failedRuns
    /\ Complete(responses, ResponseOf(frame.cid, "RUN"))

\* C15: when run() has raised on the failure of its run-response, its
\* pull-response is still on the Connection, none of that response's
\* callbacks has run, and run() has queued and flushed nothing but its two
\* requests.
C15_PullLeftPending ==
    RunResponseFailed =>
        /\ ~Complete(responses, ResponseOf(frame.cid, "PULL_ALL"))
        /\ steps = <<"enqueue_run", "enqueue_pull", "flush", "run_terminal">>
        /\ outbox = <<>>
        /\ Len(SentByFrame) = 2

\* The second run of a Session raised on the failure of its own run-response,
\* after the first had returned.
C15_Witness ==
    /\ RunResponseFailed
    /\ frame.cid = 2
    /\ Returned(1)
    /\ wire = <<>>

\* The step is a run() returning normally to whoever called it.
RunCompletes == pc = "done" /\ pc' = "idle" /\ result' = "ok"

\* C16: a run() that returns normally appends one BenchTest, its own, at the
\* end of bench_tests; no other step, a raising run() included, changes the
\* list.
C16_AppendOnly ==
    [][/\ RunCompletes =>
            /\ Len(bench_tests') = Len(bench_tests) + 1
            /\ SubSeq(bench_tests', 1, Len(bench_tests)) = bench_tests
            /\ bench_tests'[Len(bench_tests')].cid = frame.cid
            /\ ~Returned(frame.cid)
       /\ ~RunCompletes => bench_tests' = bench_tests]_vars

\* BEGIN returned, the run inside the Transaction raised, and the COMMIT
\* returned: three run calls, two samples.
C16_Witness ==
    /\ ncalls = 3
    /\ Len(bench_tests) = 2
    /\ bench_tests[1].cid = 1
    /\ bench_tests[2].cid = 3
    /\ frame.caller = "tx_close"
    /\ result = "ok"

\* The step is a run(), commit(), rollback() or close() call on Transaction
\* t, made when t is closed.
CallOnClosed(t) ==
    /\ pc = "idle"
    /\ txs[t].closed
    /\ frame'.tx = t
    /\ frame'.name \in {"Transaction.run", "commit", "rollback", "close"}
    /\ <<frame', result'>> # <<frame, result>>

\* C17: a run(), commit(), rollback() or close() call on a closed
\* Transaction fails and changes nothing: not the closed flag, not the
\* success flag, not the Session's slot, nor anything else.
C17_ClosedIsTerminal ==
    [][\A t \in 1..Len(txs) :
          CallOnClosed(t) =>
              /\ Refused
              /\ txs' = txs
              /\ transaction' = transaction
              /\ bench_tests' = bench_tests
              /\ closes' = closes]_vars

\* C18: when the COMMIT or ROLLBACK that close() runs has raised CypherError,
\* the Transaction is still open: closed is false and the Session's slot
\* still holds it.
C18_FailedCloseStaysOpen ==
    (pc = "idle" /\ frame.caller = "tx_close" /\ result = "CypherError") =>
        /\ ~txs[frame.tx].closed
        /\ transaction = frame.tx

\* commit() has raised CypherError on the server's failure of its COMMIT.
C18_Witness ==
    /\ pc = "idle"
    /\ frame.name = "commit"
    /\ frame.stmt = "COMMIT"
    /\ frame.cid \in failedRuns
    /\ result = "CypherError"
    /\ txs[frame.tx].success

\* C19: if the server ends its reply to every flushed request, every run()
\* call, whoever made it and whatever earlier calls left on the Connection,
\* eventually returns or raises.
C19_RunEnds ==
    (pc # "idle") ~> (pc = "idle" /\ result \in {"ok", "CypherError"})

\* The first run raised on the failure of its run-response, the second on
\* the failure left over from the first, and the third has returned.
C19_Witness ==
    /\ 1 \in failedRuns
    /\ frame.cid = 3
    /\ pc = "idle"
    /\ result = "ok"
    /\ bench_tests # <<>>
    /\ bench_tests[Len(bench_tests)].cid = 3

\* The step hands the next message to the oldest response on the Connection.
Dispatches == wire # <<>> /\ wire' = Tail(wire) /\ responses # <<>>

\* C20: during a run() call only callbacks of that call's two responses
\* fire, and a CypherError it raises answers one of its own two requests.
C20_OwnCallbacksOnly ==
    [][Dispatches =>
          /\ Head(responses).cid = frame.cid
          /\ result' = "CypherError" =>
                /\ Head(wire).type = "FAILURE"
                /\ Head(wire).cid = frame.cid]_vars
====
